---------------------------- MODULE Spec2Model ----------------------------
(***************************************************************************)
(* A model of wsbd.py: the HydroNET client (APIClient, Hydro).             *)
(*                                                                         *)
(* Python values are tagged records: [int |-> n], [str |-> s],             *)
(* [list |-> <<...>>], [dict |-> <<<<k, v>>, ...>>] (insertion ordered),   *)
(* [tag |-> "None"].  A call's outcome is a record that says whether it    *)
(* raised, what it returned, which URLs it handed to the transport, what   *)
(* it logged, which exception its except clause caught and which files it  *)
(* wrote.  The network's answer to a call is an input of the action.       *)
(***************************************************************************)
EXTENDS Integers, Sequences, FiniteSets, TLC

VARIABLES
    today,      \* the system clock's date: what date.today() returns
    defaults,   \* download_data's default startdate/enddate, bound at import
    fs,         \* the file system: filename -> content
    frame       \* the call that has just returned (NoCall between calls)

vars == <<today, defaults, fs, frame>>

---------------------------------------------------------------------------
(* Bounds of the model *)

\* days the clock may advance after the module was imported
MaxTicks == 1

---------------------------------------------------------------------------
(* Python values *)

None == [tag |-> "None"]
PyInt(n) == [int |-> n]
PyStr(s) == [str |-> s]
PyList(l) == [list |-> l]
PyDict(d) == [dict |-> d]

IsNone(v) == v = None
IsInt(v) == DOMAIN v = {"int"}
IsStr(v) == DOMAIN v = {"str"}
IsList(v) == DOMAIN v = {"list"}
IsDict(v) == DOMAIN v = {"dict"}

\* key in d, for a dict d (a sequence of <<key, value>> pairs)
Has(d, k) == \E i \in DOMAIN d : d[i][1] = k

\* d[key]; the caller has checked Has(d, k)
Get(d, k) == d[CHOOSE i \in DOMAIN d : d[i][1] = k][2]

\* d.update({k: v}): replaces the value in place, or appends the pair
Update(d, k, v) ==
    IF Has(d, k)
    THEN [i \in DOMAIN d |-> IF d[i][1] = k THEN <<k, v>> ELSE d[i]]
    ELSE Append(d, <<k, v>>)

\* x in l, for a list l of strings and a Python value x
InList(x, l) == IsStr(x) /\ \E i \in DOMAIN l : l[i] = x.str

DigitChar(d) ==
    CASE d = 0 -> "0" [] d = 1 -> "1" [] d = 2 -> "2" [] d = 3 -> "3"
      [] d = 4 -> "4" [] d = 5 -> "5" [] d = 6 -> "6" [] d = 7 -> "7"
      [] d = 8 -> "8" [] d = 9 -> "9"

RECURSIVE IntStr(_)
\* str(n) for an int n >= 0
IntStr(n) == IF n < 10 THEN DigitChar(n) ELSE IntStr(n \div 10) \o DigitChar(n % 10)

RECURSIVE ZeroPad(_, _)
\* n in decimal, zero padded to w digits (strftime's %Y, %m, %d)
ZeroPad(n, w) == IF w <= 1 THEN IntStr(n) ELSE ZeroPad(n \div 10, w - 1) \o DigitChar(n % 10)

RECURSIVE Join(_, _)
\* sep.join(l) for a sequence l of strings
Join(l, sep) ==
    IF l = <<>> THEN ""
    ELSE IF Len(l) = 1 THEN l[1]
    ELSE l[1] \o sep \o Join(Tail(l), sep)

\* str(v) for an int or a str
Str(v) == IF IsInt(v) THEN IntStr(v.int) ELSE v.str

\* repr of a list of strings, as '{}'.format(list) prints it
ListRepr(l) == "[" \o Join([i \in DOMAIN l |-> "'" \o l[i] \o "'"], ", ") \o "]"

---------------------------------------------------------------------------
(* Outcomes of calls *)

Exc(type, msg) == [type |-> type, msg |-> msg]

LogEntry(level, msg) == [level |-> level, msg |-> msg]

\* a call that returned v
Returned(v, urls, log, caught, writes) ==
    [raised |-> FALSE, exc |-> None, ret |-> v, urls |-> urls, log |-> log,
     caught |-> caught, writes |-> writes]

\* a call that raised e to its caller
Raised(e, urls, log, writes) ==
    [raised |-> TRUE, exc |-> e, ret |-> None, urls |-> urls, log |-> log,
     caught |-> None, writes |-> writes]

---------------------------------------------------------------------------
(* Hydro's class attributes *)

url == "http://hydro.dommel.nl/"

requestname ==
    << "GetDwsLog", "GetRequestLog", "GetUpdateStatusLog", "GetStatus",
       "GetDataSources", "GetLocations", "GetGeoLocations", "GetParameterGroups",
       "GetParameters", "GetThmeCategories", "GetThemes", "GetTimeseries",
       "GetData", "GetDataCalc" >>

formats == << "xml", "html", "json", "jsonp", "jsont", "csv" >>

---------------------------------------------------------------------------
(* Request Builder *)

\* urllib.parse.urlencode(d): the pairs in insertion order, each value through
\* str(); the percent-encoding of the characters is left out, so the URL is
\* kept as its base and its query pairs
urlencode(d) == [i \in DOMAIN d |-> <<d[i][1], Str(d[i][2])>>]

\* self.url + 'dws?' + data_values [+ '&' + parameters_values]
full_url(data, parameters) ==
    [base |-> url \o "dws?",
     query |-> urlencode(data)
               \o (IF IsNone(parameters) THEN <<>> ELSE urlencode(parameters.dict))]

MandatoryFields ==
    Exc("RuntimeError", "\"request\" and \"format\" are mandatory fields in the request.")

InvalidRequestName(value) ==
    Exc("RuntimeError",
        "Invalid request name: " \o Str(value) \o ".\n"
        \o "Requestname can be: " \o ListRepr(requestname))

InvalidFormat(value) ==
    Exc("RuntimeError",
        "Invalid format: " \o Str(value) \o ".\n"
        \o "Accepted formats are: " \o ListRepr(formats))

create_request_NoFormatCheck(data, parameters) ==
    IF ~Has(data, "request") THEN Raised(MandatoryFields, <<>>, <<>>, <<>>)
    ELSE IF ~InList(Get(data, "request"), requestname)
    THEN Raised(InvalidRequestName(Get(data, "request")), <<>>, <<>>, <<>>)
    ELSE Returned(full_url(data, parameters), <<>>,
                  <<LogEntry("debug", "Full request url")>>, None, <<>>)

\* Hydro.create_request(data, parameters): the URL, or RuntimeError
create_request(data, parameters) ==
    IF ~Has(data, "request") THEN Raised(MandatoryFields, <<>>, <<>>, <<>>)
    ELSE IF ~InList(Get(data, "request"), requestname)
    THEN Raised(InvalidRequestName(Get(data, "request")), <<>>, <<>>, <<>>)
    ELSE IF ~Has(data, "format") THEN Raised(MandatoryFields, <<>>, <<>>, <<>>)
    ELSE IF ~InList(Get(data, "format"), formats)
    THEN Raised(InvalidFormat(Get(data, "format")), <<>>, <<>>, <<>>)
    ELSE Returned(full_url(data, parameters), <<>>,
                  <<LogEntry("debug", "Full request url")>>, None, <<>>)

---------------------------------------------------------------------------
(* Transport *)

\* APIClient.execute_request(full_url), the network answering net: the bytes
\* read, or None after an HTTPError or a URLError (both logged); any other
\* exception of urlopen() or read() propagates.  urls: the requests opened
execute_request(request_, net) ==
    CASE net.kind = "HTTPError" ->
           Returned(None, <<request_>>,
                    <<LogEntry("error", "The server couldn't fulfill the request.")>>,
                    None, <<>>)
      [] net.kind = "URLError" ->
           Returned(None, <<request_>>,
                    <<LogEntry("error", "<urlopen error timed out>")>>, None, <<>>)
      [] net.kind = "ConnectionResetError" ->
           Raised(Exc("ConnectionResetError", "Connection reset by peer"),
                  <<request_>>, <<>>, <<>>)
      [] net.kind = "bytes" ->
           Returned(net.body, <<request_>>, <<>>, None, <<>>)

---------------------------------------------------------------------------
(* Response Interpreter *)

\* data.decode('utf-8-sig'): the text without its byte-order mark; None has no
\* decode, and bytes that are not UTF-8 do not decode
decode(data) ==
    IF IsNone(data)
    THEN Raised(Exc("AttributeError", "'NoneType' object has no attribute 'decode'"),
                <<>>, <<>>, <<>>)
    ELSE IF ~data.valid
    THEN Raised(Exc("UnicodeDecodeError", "'utf-8' codec can't decode byte"),
                <<>>, <<>>, <<>>)
    ELSE Returned(data.text, <<>>, <<>>, None, <<>>)

\* re.search("Input string was not in a correct format.", data)
re_search_marker(data) == data.marker

\* json.loads(data)
json_loads(data) ==
    IF data.json = [tag |-> "invalid"]
    THEN Raised(Exc("JSONDecodeError", "Expecting value"), <<>>, <<>>, <<>>)
    ELSE Returned(data.json, <<>>, <<>>, None, <<>>)

\* v[key], for a string key: of a dict, a list, None or a str
subscript(v, key) ==
    IF IsDict(v)
    THEN IF Has(v.dict, key)
         THEN Returned(Get(v.dict, key), <<>>, <<>>, None, <<>>)
         ELSE Raised(Exc("KeyError", "'" \o key \o "'"), <<>>, <<>>, <<>>)
    ELSE IF IsList(v)
    THEN Raised(Exc("TypeError", "list indices must be integers or slices, not str"),
                <<>>, <<>>, <<>>)
    ELSE IF IsNone(v)
    THEN Raised(Exc("TypeError", "'NoneType' object is not subscriptable"),
                <<>>, <<>>, <<>>)
    ELSE Raised(Exc("TypeError", "string indices must be integers"), <<>>, <<>>, <<>>)

\* the two checks made for every format: c the URL built, e what the
\* transport gave, d its decoding
checked(c, e, d) ==
    IF d.raised THEN Raised(d.exc, e.urls, c.log \o e.log, <<>>)
    ELSE IF d.ret.empty
    THEN Raised(Exc("RuntimeError", "No response from the API."),
                e.urls, c.log \o e.log, <<>>)
    ELSE IF re_search_marker(d.ret)
    THEN Raised(Exc("RuntimeError", "The input string was not in a correct format."),
                e.urls, c.log \o e.log, <<>>)
    ELSE Returned(d.ret, e.urls, c.log \o e.log, None, <<>>)

\* .decode('utf-8-sig') of what execute_request returned
decoded(c, e) ==
    IF e.raised THEN Raised(e.exc, e.urls, c.log \o e.log, <<>>)
    ELSE checked(c, e, decode(e.ret))

\* execute_request called a second time when it gave None
sent_Retry(c, net) ==
    IF c.raised THEN c
    ELSE decoded(c, [execute_request(c.ret, net) EXCEPT
                        !.urls = IF IsNone(execute_request(c.ret, net).ret)
                                 THEN @ \o @ ELSE @])

\* self.execute_request(request), request the URL that create_request built
sent(c, net) ==
    IF c.raised THEN c ELSE decoded(c, execute_request(c.ret, net))

\* the statements request() and download() share: build the URL, ask the
\* transport, decode, and the two checks made for every format.  It returns
\* the decoded text, or raises inside the try block
fetch(cfg, parameters, net) == sent(create_request(cfg, parameters), net)

\* raise RuntimeError('Error executing the query.\n' + data['ErrorMessage']),
\* m the outcome of data['ErrorMessage']
server_error(m) ==
    IF m.raised THEN m
    ELSE Raised(Exc("RuntimeError", "Error executing the query.\n" \o m.ret.str),
                <<>>, <<>>, <<>>)

\* "if output['ErrorMessage'] != ''", err the outcome of output['ErrorMessage'];
\* data is the decoded text, a str
has_error(data, output, err) ==
    IF err.raised THEN err
    ELSE IF err.ret # PyStr("") THEN server_error(subscript(data, "ErrorMessage"))
    ELSE Returned(output, <<>>, <<>>, None, <<>>)

\* "if output['Data'] == []", dat the outcome of output['Data']
has_data(data, output, dat) ==
    IF dat.raised THEN dat
    ELSE IF dat.ret = PyList(<<>>)
    THEN Raised(Exc("RuntimeError", "The Data field is empty!"), <<>>, <<>>, <<>>)
    ELSE has_error(data, output, subscript(output, "ErrorMessage"))

\* output = json.loads(data), p its outcome
loaded(data, p) ==
    IF p.raised THEN p ELSE has_data(data, p.ret, subscript(p.ret, "Data"))

\* the statements under "if cfg['format'] == 'json'": parse, then the two
\* envelope checks; it returns output
check_envelope(data) == loaded(data, json_loads(data))

except_NotRuntimeError(err) == err.type # "RuntimeError"

\* "except BaseException as err": whether the clause catches err
except_BaseException(err) == TRUE

\* the except clause of request() and download(): log the error and fall off
\* the end of the function
handled(body, log0) ==
    IF ~body.raised
    THEN Returned(body.ret, body.urls, log0 \o body.log, None, body.writes)
    ELSE IF except_BaseException(body.exc)
    THEN Returned(None, body.urls,
                  log0 \o body.log \o <<LogEntry("error", body.exc.msg)>>,
                  body.exc, <<>>)
    ELSE Raised(body.exc, body.urls, log0 \o body.log, <<>>)

\* request()'s try block after the text is fetched: f the fetch, v the
\* envelope check of its text
request_output(cfg, f, v) ==
    IF Get(cfg, "format") = PyStr("json")
    THEN IF v.raised
         THEN Raised(v.exc, f.urls, f.log, <<>>)
         ELSE Returned(v.ret, f.urls, f.log, None, <<>>)
    \* "return output" with output never assigned
    ELSE Raised(Exc("UnboundLocalError",
                    "local variable 'output' referenced before assignment"),
                f.urls, f.log, <<>>)

\* request()'s try block
request_try(cfg, f) ==
    IF f.raised THEN f ELSE request_output(cfg, f, check_envelope(f.ret))

\* Hydro.request(cfg, parameters), the network answering net
request(cfg, parameters, net) ==
    IF ~Has(cfg, "format")
    THEN Raised(Exc("KeyError", "'format'"), <<>>, <<>>, <<>>)
    ELSE handled(request_try(cfg, fetch(cfg, parameters, net)),
                 <<LogEntry("debug", "Retrieving data in the %s format")>>)

---------------------------------------------------------------------------
(* Files *)

Absent == [tag |-> "absent"]

\* os.path.isfile(filename)
isfile(files, filename) == files[filename] # Absent

\* json.dumps(data, indent = 4, sort_keys = False): the file's text
json_dumps(data) == [indent |-> 4, sort_keys |-> FALSE, value |-> data]

\* write_pretty_json(data, filename): the write it makes
write_pretty_json(data, filename) == <<filename, json_dumps(data)>>

\* os.path.splitext(p) for a name without directories, as the tokens of p (a
\* "." or a piece without dots): <<root, ext>>, ext from the last dot, unless
\* only dots precede it
splitext(p) ==
    LET dots == {i \in DOMAIN p : p[i] = "."}
        dotIndex == CHOOSE i \in dots : \A j \in dots : j <= i
    IN  IF dots # {} /\ (\E j \in 1..(dotIndex - 1) : p[j] # ".")
        THEN <<SubSeq(p, 1, dotIndex - 1), SubSeq(p, dotIndex, Len(p))>>
        ELSE <<p, <<>>>>

\* s[1:]
Tail0(s) == IF s = <<>> THEN <<>> ELSE Tail(s)

\* splitext(filename)[1][1:]
extension(filename) == Join(Tail0(splitext(filename)[2]), "")

\* "if isfile(filename): logging.warning('Overwriting: %s', filename)"
warned(f, filename, files) ==
    IF isfile(files, filename)
    THEN [f EXCEPT !.log = f.log \o <<LogEntry("warning", "Overwriting")>>]
    ELSE f

download_output_AnyFormat(cfg, filename, f, v) ==
    Returned(None, f.urls, f.log \o <<LogEntry("debug", "Saving data to file")>>,
             None, <<write_pretty_json(f.ret.json, filename)>>)

\* download()'s try block after the text is fetched and the warning given: f
\* the fetch, v the envelope check of its text
download_output(cfg, filename, f, v) ==
    IF Get(cfg, "format") = PyStr("json")
    THEN IF v.raised
         THEN Raised(v.exc, f.urls, f.log, <<>>)
         ELSE Returned(None, f.urls,
                       f.log \o <<LogEntry("debug", "Saving data to file")>>,
                       None, <<write_pretty_json(v.ret, filename)>>)
    ELSE Returned(None, f.urls, f.log, None, <<>>)

\* download()'s try block
download_try(cfg, filename, files, f) ==
    IF f.raised THEN f
    ELSE download_output(cfg, filename, warned(f, filename, files), check_envelope(f.ret))

\* Hydro.download(cfg, parameters, filename), the network answering net, with
\* the files as they are
download(cfg, parameters, filename, net, files) ==
    IF ~Has(cfg, "format")
    THEN Raised(Exc("KeyError", "'format'"), <<>>, <<>>, <<>>)
    ELSE handled(download_try(cfg, filename, files, fetch(cfg, parameters, net)),
                 <<LogEntry("debug", "Downloading data in the %s format")>>)

---------------------------------------------------------------------------
(* Dates *)

Date(y, m, d) == [year |-> y, month |-> m, day |-> d]

IsLeap(y) == (y % 4 = 0 /\ y % 100 # 0) \/ y % 400 = 0

DaysInMonth(y, m) ==
    IF m = 2 THEN (IF IsLeap(y) THEN 29 ELSE 28)
    ELSE IF m \in {4, 6, 9, 11} THEN 30 ELSE 31

\* the day after d
NextDay(d) ==
    IF d.day < DaysInMonth(d.year, d.month) THEN Date(d.year, d.month, d.day + 1)
    ELSE IF d.month < 12 THEN Date(d.year, d.month + 1, 1)
    ELSE Date(d.year + 1, 1, 1)

\* d.strftime('%Y%m%d0000')
strftime(d) == ZeroPad(d.year, 4) \o ZeroPad(d.month, 2) \o ZeroPad(d.day, 2) \o "0000"

\* the digits YYYYMMDD as a date
DigitsDate(c) ==
    Date(c[1] * 1000 + c[2] * 100 + c[3] * 10 + c[4], c[5] * 10 + c[6], c[7] * 10 + c[8])

\* pd.to_datetime(s) for a string s of eight digits, YYYYMMDD, kept as its digits
to_datetime(s) == DigitsDate(s.datestr)

\* an argument left out of a call, so that its default applies
Omitted == [tag |-> "omitted"]

---------------------------------------------------------------------------
(* Tabular shaping *)

\* pd.DataFrame(rows): one row per record
DataFrame(rows) == [tag |-> "DataFrame", rows |-> rows]

\* whether the frame has the column: some record has the key
HasColumn(rows, key) == \E i \in DOMAIN rows : key \in DOMAIN rows[i]

\* s.str.contains(pat), for strings kept as their characters
Contains(s, pat) == \E i \in 0..(Len(s) - Len(pat)) : SubSeq(s, i + 1, i + Len(pat)) = pat

\* what the retrieval operations do with the r that request() returned:
\* d is r['Data'] and t the shaping of it
Shaped(r, d, t) ==
    IF r.raised THEN r
    ELSE IF d.raised THEN Raised(d.exc, r.urls, r.log, <<>>)
    ELSE IF t.raised THEN Raised(t.exc, r.urls, r.log, <<>>)
    ELSE Returned(t.ret, r.urls, r.log, r.caught, <<>>)

\* pd.DataFrame(r['Data']), d the outcome of r['Data']
tabular_rows(r, d) == Shaped(r, d, Returned(DataFrame(d.ret.list), <<>>, <<>>, None, <<>>))

\* "pd.DataFrame(r['Data'])" and the return of it, r what request() returned
tabular(r) == tabular_rows(r, subscript(r.ret, "Data"))

Cfg(request_, format_) == << <<"request", PyStr(request_)>>, <<"format", PyStr(format_)>> >>

ThemeParameters(themeid) == PyDict(<< <<"theme", themeid>> >>)

---------------------------------------------------------------------------
(* Query Facade *)

\* Hydro.download_geolocations(themeid, filename)
download_geolocations(themeid, filename, net, files) ==
    download(Cfg("GetGeoLocations", extension(filename)), ThemeParameters(themeid),
             filename, net, files)

\* the two filters of return_geolocations, on rows with their geometry
geo_filtered(codefilter, namefilter, rows) ==
    LET byCode(row) == IsNone(codefilter) \/ codefilter.chars = <<>>
                       \/ Contains(row.Code, codefilter.chars)
        byName(row) == IsNone(namefilter) \/ namefilter.chars = <<>>
                       \/ Contains(row.Name, namefilter.chars)
    IN  SelectSeq(SelectSeq(rows, byCode), byName)

\* the frame of return_geolocations: the first projection of every record
\* beside it, a point per row, the first row's EPSG as the CRS
geo_frame(codefilter, namefilter, rows) ==
    [tag |-> "GeoDataFrame",
     rows |-> geo_filtered(codefilter, namefilter,
                           [i \in DOMAIN rows |->
                              [geometry |-> [X |-> rows[i].Projections[1].X,
                                             Y |-> rows[i].Projections[1].Y]]
                              @@ rows[i] @@ rows[i].Projections[1]]),
     crs |-> [init |-> "epsg:" \o rows[1].Projections[1].EPSG]]

\* the shaping of return_geolocations
geo_shape(codefilter, namefilter, rows) ==
    IF ~HasColumn(rows, "Projections")
    THEN Raised(Exc("KeyError", "'Projections'"), <<>>, <<>>, <<>>)
    ELSE IF \E i \in DOMAIN rows : "Projections" \notin DOMAIN rows[i]
    THEN Raised(Exc("TypeError", "'float' object is not subscriptable"), <<>>, <<>>, <<>>)
    ELSE IF \E i \in DOMAIN rows : rows[i].Projections = <<>>
    THEN Raised(Exc("IndexError", "list index out of range"), <<>>, <<>>, <<>>)
    ELSE Returned(geo_frame(codefilter, namefilter, rows), <<>>, <<>>, None, <<>>)

\* return_geolocations after r['Data'], d its outcome
geo_rows(r, d, codefilter, namefilter) ==
    Shaped(r, d, geo_shape(codefilter, namefilter, d.ret.list))

\* return_geolocations after the request, r what request() returned
geo(r, codefilter, namefilter) ==
    geo_rows(r, subscript(r.ret, "Data"), codefilter, namefilter)

\* Hydro.return_geolocations(themeid, codefilter, namefilter)
return_geolocations(themeid, codefilter, namefilter, net) ==
    geo(request(Cfg("GetGeoLocations", "json"), ThemeParameters(themeid), net),
        codefilter, namefilter)

\* Hydro.download_themes(filename)
download_themes(filename, net, files) ==
    download(Cfg("GetThemes", extension(filename)), None, filename, net, files)

\* Hydro.return_themes()
return_themes(net) == tabular(request(Cfg("GetThemes", "json"), None, net))

\* Hydro.download_locations_data(themeid, filename)
download_locations_data(themeid, filename, net, files) ==
    download(Cfg("GetLocations", extension(filename)), ThemeParameters(themeid),
             filename, net, files)

\* Hydro.return_locations_data(themeid)
return_locations_data(themeid, net) ==
    tabular(request(Cfg("GetLocations", "json"), ThemeParameters(themeid), net))

\* Hydro.download_parameters(themeid, filename)
download_parameters(themeid, filename, net, files) ==
    download(Cfg("GetParameters", extension(filename)), ThemeParameters(themeid),
             filename, net, files)

\* Hydro.return_parameters(themeid)
return_parameters(themeid, net) ==
    tabular(request(Cfg("GetParameters", "json"), ThemeParameters(themeid), net))

\* Hydro.return_timeseries(themeid)
return_timeseries(themeid, net) ==
    tabular(request(Cfg("GetTimeseries", "json"), ThemeParameters(themeid), net))

\* ','.join([str(x[key]) for x in l])
JoinIds(l, key) == Join([i \in DOMAIN l |-> Str(l[i][key])], ",")

Skipped(msg) == Returned(None, <<>>, <<LogEntry("warning", msg)>>, None, <<>>)

\* the parameters download_data sends
data_parameters(thms, pars, loc, strd, endd) ==
    PyDict(<< <<"theme", PyStr(thms)>>, <<"parameters", PyStr(pars)>>,
              <<"locations", PyStr(loc)>>, <<"startdate", PyStr(strd)>>,
              <<"enddate", PyStr(endd)>> >>)

download_data_LocOnly(themes, parameters, locations, filename, startdate, enddate, net, files, dflt) ==
    IF JoinIds(locations, "LocationID") = ""
    THEN Skipped("Empty locations, parameters or theme array. Skipping this query.")
    ELSE download(Cfg("GetData", extension(filename)),
                  data_parameters(JoinIds(themes, "ThemeId"),
                                  JoinIds(parameters, "ParameterID"),
                                  JoinIds(locations, "LocationID"),
                                  strftime(IF startdate = Omitted THEN dflt.startdate ELSE startdate),
                                  strftime(IF enddate = Omitted THEN dflt.enddate ELSE enddate)),
                  filename, net, files)

\* Hydro.download_data(themes, parameters, locations, filename, startdate,
\* enddate); dflt holds the defaults of startdate and enddate, which Python
\* evaluated once, when the def statement ran
download_data(themes, parameters, locations, filename, startdate, enddate, net, files, dflt) ==
    IF \/ JoinIds(locations, "LocationID") = ""
       \/ JoinIds(parameters, "ParameterID") = ""
       \/ JoinIds(themes, "ThemeId") = ""
    THEN Skipped("Empty locations, parameters or theme array. Skipping this query.")
    ELSE download(Cfg("GetData", extension(filename)),
                  data_parameters(JoinIds(themes, "ThemeId"),
                                  JoinIds(parameters, "ParameterID"),
                                  JoinIds(locations, "LocationID"),
                                  strftime(IF startdate = Omitted THEN dflt.startdate ELSE startdate),
                                  strftime(IF enddate = Omitted THEN dflt.enddate ELSE enddate)),
                  filename, net, files)

\* the default of return_data's timeserie
DefaultTimeserie == 39

\* the values-only frame of return_data: the first record's Values, indexed
\* by their dates, the column named after the record, Date and QC dropped
values_frame(rows, vals) ==
    IF \A i \in DOMAIN vals : "Date" \notin DOMAIN vals[i]
    THEN Raised(Exc("KeyError", "'Date'"), <<>>, <<>>, <<>>)
    ELSE IF ~HasColumn(rows, "Name")
    THEN Raised(Exc("KeyError", "'Name'"), <<>>, <<>>, <<>>)
    ELSE Returned([tag |-> "DataFrame",
                   index |-> [i \in DOMAIN vals |-> to_datetime(vals[i].Date)],
                   columns |-> <<rows[1].Name>>,
                   rows |-> [i \in DOMAIN vals |-> vals[i].Value]],
                  <<>>, <<>>, None, <<>>)

\* the shaping of return_data
data_shape(values, rows) ==
    IF ~values THEN Returned(DataFrame(rows), <<>>, <<>>, None, <<>>)
    ELSE IF ~HasColumn(rows, "Values")
    THEN Raised(Exc("KeyError", "'Values'"), <<>>, <<>>, <<>>)
    ELSE IF "Values" \notin DOMAIN rows[1]
    THEN Raised(Exc("ValueError", "DataFrame constructor not properly called!"),
                <<>>, <<>>, <<>>)
    ELSE values_frame(rows, rows[1].Values)

\* return_data after r['Data'], d its outcome
data_rows(r, d, values) == Shaped(r, d, data_shape(values, d.ret.list))

\* return_data after the request, r what request() returned
data_frame(r, values) == data_rows(r, subscript(r.ret, "Data"), values)

\* "if x:" for None or a str
Truthy(x) == ~IsNone(x) /\ x # [datestr |-> <<>>]

\* "x == ''"
IsEmptyStr(x) == IsStr(x) /\ x.str = ""

\* "if cond: d.update({k: v})"
update_if(cond, d, k, v) == IF cond THEN Update(d, k, v) ELSE d

\* the parameters return_data sends
series_parameters(theme, parameter, location, timeserie, strd, endd) ==
    PyDict(
      update_if(IsStr(location), 
        update_if(IsInt(location),
          update_if(IsList(parameter),
            update_if(IsStr(parameter),
              update_if(IsInt(parameter),
                << <<"theme", theme>>, <<"startdate", PyStr(strd)>>,
                   <<"enddate", PyStr(endd)>>, <<"timeserie", timeserie>> >>,
                "parameter", parameter),
              "parcode", parameter),
            "parcode", PyStr(Join(IF IsList(parameter) THEN parameter.list ELSE <<>>, ","))),
          "loc", location),
        "loccode", location))

\* Hydro.return_data(theme, parameter, location, timeserie, startdate,
\* enddate, values), called on the day now
return_data(theme, parameter, location, timeserie, startdate, enddate, values, net, now) ==
    IF IsEmptyStr(location) \/ IsEmptyStr(parameter) \/ IsEmptyStr(theme)
    THEN Skipped("Empty location, parameter or theme. Skipping this query.")
    ELSE data_frame(
           request(Cfg("GetData", "json"),
                   series_parameters(
                     theme, parameter, location, timeserie,
                     IF Truthy(startdate) THEN strftime(to_datetime(startdate))
                     ELSE strftime(Date(now.year, 1, 1)),
                     IF Truthy(enddate) THEN strftime(to_datetime(enddate))
                     ELSE strftime(now)),
                   net),
           values)

---------------------------------------------------------------------------
(* The inputs the operations are called with *)

ValidRequest == "GetThemes"

\* descriptors: a valid kind with each of the six formats, and the invalid ones
Cfgs ==
    {Cfg(ValidRequest, formats[i]) : i \in DOMAIN formats}
    \cup {Cfg("GetEverything", "json"), Cfg(ValidRequest, "yaml"),
          << <<"request", PyStr(ValidRequest)>> >>,
          << <<"format", PyStr("json")>> >>,
          << >>}

ThemeIds == {PyInt(12)}

Parameters == {None} \cup {ThemeParameters(t) : t \in ThemeIds}

\* file names as their tokens: themes.json, data.tar.xml, .json
Filenames == {<<"themes", ".", "json">>, <<"data", ".", "tar", ".", "xml">>, <<".", "json">>}

\* the triples of selector lists download_data is called with
SelectorLists ==
    LET full(key) == <<key :> PyInt(11), key :> PyInt(12)>>
        th == full("ThemeId")
        pa == full("ParameterID")
        lo == full("LocationID")
    IN  {<<th, pa, lo>>, <<<<>>, pa, lo>>, <<th, <<>>, lo>>, <<th, pa, <<>>>>, <<<<>>, <<>>, <<>>>>}

GeoRecord1 ==
    [Code |-> <<"T", "D", "B", "1">>, Name |-> <<"A", "a">>,
     Projections |-> <<[X |-> 1, Y |-> 2, EPSG |-> "28992"]>>]

GeoRecord2 ==
    [Code |-> <<"K", "K", "L">>, Name |-> <<"B">>,
     Projections |-> <<[X |-> 3, Y |-> 4, EPSG |-> "4326"]>>]

SeriesRecord ==
    [Name |-> "Flow",
     Values |-> <<[Date |-> [datestr |-> <<2, 0, 2, 0, 0, 1, 0, 1>>], Value |-> 1, QC |-> 0],
                  [Date |-> [datestr |-> <<2, 0, 2, 0, 0, 1, 0, 2>>], Value |-> 2, QC |-> 0]>>]

Envelope(data, errormessage) ==
    PyDict(<< <<"Data", PyList(data)>>, <<"ErrorMessage", PyStr(errormessage)>> >>)

\* the documents a response may hold
Jsons ==
    {Envelope(<<>>, ""), Envelope(<<>>, "boom"),
     Envelope(<<GeoRecord1, GeoRecord2>>, ""), Envelope(<<SeriesRecord>>, ""),
     Envelope(<<SeriesRecord>>, "boom"),
     PyDict(<< <<"ErrorMessage", PyStr("")>> >>),
     PyDict(<< <<"Data", PyList(<<SeriesRecord>>)>> >>),
     PyList(<<PyInt(1)>>)}

NotJson == [tag |-> "invalid"]

EmptyText == [empty |-> TRUE, marker |-> FALSE, json |-> NotJson]

\* decoded texts: empty, not JSON (xml, csv, ...), JSON; with the server's
\* error marker in it or not
Texts ==
    {EmptyText}
    \cup {[empty |-> FALSE, marker |-> m, json |-> NotJson] : m \in BOOLEAN}
    \cup {[empty |-> FALSE, marker |-> FALSE, json |-> j] : j \in Jsons}
    \cup {[empty |-> FALSE, marker |-> TRUE,
           json |-> Envelope(<<SeriesRecord>>, "Input string was not in a correct format.")]}

\* response bodies: UTF-8 with or without a byte-order mark, or not UTF-8
Bodies ==
    {[valid |-> TRUE, bom |-> FALSE, text |-> t] : t \in Texts}
    \cup {[valid |-> TRUE, bom |-> TRUE, text |-> t] :
            t \in {EmptyText,
                   [empty |-> FALSE, marker |-> FALSE, json |-> Envelope(<<SeriesRecord>>, "")]}}
    \cup {[valid |-> FALSE, bom |-> FALSE, text |-> EmptyText]}

\* what the network does with a request
Nets ==
    {[kind |-> k] : k \in {"HTTPError", "URLError", "ConnectionResetError"}}
    \cup {[kind |-> "bytes", body |-> b] : b \in Bodies}

\* startdate, enddate of download_data
DateArgs == {<<Omitted, Omitted>>, <<Date(2025, 6, 1), Date(2025, 6, 30)>>}

\* startdate, enddate of return_data
DateStrings ==
    {<<None, None>>,
     <<[datestr |-> <<2, 0, 1, 9, 0, 1, 0, 1>>], [datestr |-> <<2, 0, 1, 9, 1, 2, 3, 1>>]>>}

\* theme, parameter, location of return_data
Selections ==
    {<<PyInt(3), PyInt(7), PyInt(5)>>,
     <<PyInt(3), PyStr("Q"), PyStr("LOC")>>,
     <<PyInt(3), PyList(<<"Q", "H">>), PyInt(5)>>,
     <<PyStr(""), PyInt(7), PyInt(5)>>,
     <<PyInt(3), PyStr(""), PyInt(5)>>,
     <<PyInt(3), PyInt(7), PyStr("")>>}

Filters == {None, [chars |-> <<"B">>]}

---------------------------------------------------------------------------
(* The state machine *)

NoCall == [op |-> "none"]

\* the record of a call that has returned or raised
Call(op, args, out) == [op |-> op, args |-> args, out |-> out]

OldContent == [tag |-> "old"]

\* the files after the writes of a call
Written(files, writes) ==
    [f \in DOMAIN files |->
        IF \E i \in DOMAIN writes : writes[i][1] = f
        THEN writes[CHOOSE i \in DOMAIN writes :
                       writes[i][1] = f /\ \A j \in DOMAIN writes : writes[j][1] = f => j <= i][2]
        ELSE files[f]]

\* the day the module is imported: the def statements run, and the defaults
\* of download_data are evaluated
ImportDate == Date(2025, 12, 31)

RECURSIVE DaysLater(_, _)
DaysLater(d, n) == IF n = 0 THEN d ELSE NextDay(DaysLater(d, n - 1))

Init ==
    /\ today = ImportDate
    /\ defaults = [startdate |-> Date(today.year, 1, 1), enddate |-> today]
    /\ fs = [f \in Filenames |-> IF f = <<"themes", ".", "json">> THEN OldContent ELSE Absent]
    /\ frame = NoCall

\* midnight passes
Tick ==
    /\ frame = NoCall
    /\ \E n \in 0..(MaxTicks - 1) : today = DaysLater(ImportDate, n)
    /\ today' = NextDay(today)
    /\ UNCHANGED <<defaults, fs, frame>>

\* the caller is done with what the call gave it: nothing of a call but the
\* files it wrote outlives it
Discard ==
    /\ frame # NoCall
    /\ frame' = NoCall
    /\ UNCHANGED <<today, defaults, fs>>

CreateRequest(data, parameters) ==
    /\ frame = NoCall
    /\ frame' = Call("create_request", [cfg |-> data, parameters |-> parameters],
                     create_request(data, parameters))
    /\ UNCHANGED <<today, defaults, fs>>

Request(cfg, parameters, net) ==
    /\ frame = NoCall
    /\ frame' = Call("request", [cfg |-> cfg, parameters |-> parameters, net |-> net],
                     request(cfg, parameters, net))
    /\ UNCHANGED <<today, defaults, fs>>

Download(cfg, parameters, filename, net) ==
    LET out == download(cfg, parameters, filename, net, fs)
    IN  /\ frame = NoCall
        /\ frame' = Call("download",
                         [cfg |-> cfg, parameters |-> parameters, filename |-> filename,
                          net |-> net], out)
        /\ fs' = Written(fs, out.writes)
        /\ UNCHANGED <<today, defaults>>

DownloadGeolocations(themeid, filename, net) ==
    LET out == download_geolocations(themeid, filename, net, fs)
    IN  /\ frame = NoCall
        /\ frame' = Call("download_geolocations",
                         [themeid |-> themeid, filename |-> filename, net |-> net], out)
        /\ fs' = Written(fs, out.writes)
        /\ UNCHANGED <<today, defaults>>

ReturnGeolocations(themeid, codefilter, namefilter, net) ==
    /\ frame = NoCall
    /\ frame' = Call("return_geolocations",
                     [themeid |-> themeid, codefilter |-> codefilter,
                      namefilter |-> namefilter, net |-> net],
                     return_geolocations(themeid, codefilter, namefilter, net))
    /\ UNCHANGED <<today, defaults, fs>>

DownloadThemes(filename, net) ==
    LET out == download_themes(filename, net, fs)
    IN  /\ frame = NoCall
        /\ frame' = Call("download_themes", [filename |-> filename, net |-> net], out)
        /\ fs' = Written(fs, out.writes)
        /\ UNCHANGED <<today, defaults>>

ReturnThemes(net) ==
    /\ frame = NoCall
    /\ frame' = Call("return_themes", [net |-> net], return_themes(net))
    /\ UNCHANGED <<today, defaults, fs>>

DownloadLocationsData(themeid, filename, net) ==
    LET out == download_locations_data(themeid, filename, net, fs)
    IN  /\ frame = NoCall
        /\ frame' = Call("download_locations_data",
                         [themeid |-> themeid, filename |-> filename, net |-> net], out)
        /\ fs' = Written(fs, out.writes)
        /\ UNCHANGED <<today, defaults>>

ReturnLocationsData(themeid, net) ==
    /\ frame = NoCall
    /\ frame' = Call("return_locations_data", [themeid |-> themeid, net |-> net],
                     return_locations_data(themeid, net))
    /\ UNCHANGED <<today, defaults, fs>>

DownloadParameters(themeid, filename, net) ==
    LET out == download_parameters(themeid, filename, net, fs)
    IN  /\ frame = NoCall
        /\ frame' = Call("download_parameters",
                         [themeid |-> themeid, filename |-> filename, net |-> net], out)
        /\ fs' = Written(fs, out.writes)
        /\ UNCHANGED <<today, defaults>>

ReturnParameters(themeid, net) ==
    /\ frame = NoCall
    /\ frame' = Call("return_parameters", [themeid |-> themeid, net |-> net],
                     return_parameters(themeid, net))
    /\ UNCHANGED <<today, defaults, fs>>

ReturnTimeseries(themeid, net) ==
    /\ frame = NoCall
    /\ frame' = Call("return_timeseries", [themeid |-> themeid, net |-> net],
                     return_timeseries(themeid, net))
    /\ UNCHANGED <<today, defaults, fs>>

DownloadData(themes, parameters, locations, filename, dates, net) ==
    LET out == download_data(themes, parameters, locations, filename,
                             dates[1], dates[2], net, fs, defaults)
    IN  /\ frame = NoCall
        /\ frame' = Call("download_data",
                         [themes |-> themes, parameters |-> parameters,
                          locations |-> locations, filename |-> filename,
                          startdate |-> dates[1], enddate |-> dates[2], net |-> net,
                          today |-> today], out)
        /\ fs' = Written(fs, out.writes)
        /\ UNCHANGED <<today, defaults>>

ReturnData(sel, dates, values, net) ==
    /\ frame = NoCall
    /\ frame' = Call("return_data",
                     [theme |-> sel[1], parameter |-> sel[2], location |-> sel[3],
                      startdate |-> dates[1], enddate |-> dates[2], values |-> values,
                      net |-> net, today |-> today],
                     return_data(sel[1], sel[2], sel[3], PyInt(DefaultTimeserie),
                                 dates[1], dates[2], values, net, today))
    /\ UNCHANGED <<today, defaults, fs>>

Next ==
    \/ Tick
    \/ Discard
    \/ \E c \in Cfgs, p \in Parameters : CreateRequest(c, p)
    \/ \E c \in Cfgs, p \in Parameters, n \in Nets : Request(c, p, n)
    \/ \E c \in Cfgs, f \in Filenames, n \in Nets : Download(c, None, f, n)
    \/ \E t \in ThemeIds, f \in Filenames, n \in Nets : DownloadGeolocations(t, f, n)
    \/ \E t \in ThemeIds, cf \in Filters, nf \in Filters, n \in Nets :
          ReturnGeolocations(t, cf, nf, n)
    \/ \E f \in Filenames, n \in Nets : DownloadThemes(f, n)
    \/ \E n \in Nets : ReturnThemes(n)
    \/ \E t \in ThemeIds, f \in Filenames, n \in Nets : DownloadLocationsData(t, f, n)
    \/ \E t \in ThemeIds, n \in Nets : ReturnLocationsData(t, n)
    \/ \E t \in ThemeIds, f \in Filenames, n \in Nets : DownloadParameters(t, f, n)
    \/ \E t \in ThemeIds, n \in Nets : ReturnParameters(t, n)
    \/ \E t \in ThemeIds, n \in Nets : ReturnTimeseries(t, n)
    \/ \E s \in SelectorLists, f \in Filenames, d \in DateArgs, n \in Nets :
          DownloadData(s[1], s[2], s[3], f, d, n)
    \/ \E s \in Selections, d \in DateStrings, v \in BOOLEAN, n \in Nets :
          ReturnData(s, d, v, n)

Spec == Init /\ [][Next]_vars

---------------------------------------------------------------------------
(* What the claims speak of *)

\* the descriptor is in the enumerations: its kind among the 14 request
\* names, its format among the 6 formats, neither missing
ValidDescriptor(cfg) ==
    /\ Has(cfg, "request") /\ InList(Get(cfg, "request"), requestname)
    /\ Has(cfg, "format") /\ InList(Get(cfg, "format"), formats)

RetrievalOps ==
    {"return_themes", "return_locations_data", "return_parameters", "return_timeseries",
     "return_geolocations", "return_data"}

DownloadOps ==
    {"download_themes", "download_locations_data", "download_parameters",
     "download_geolocations", "download_data"}

\* the kind each facade operation asks for
KindOf(op) ==
    CASE op \in {"return_themes", "download_themes"} -> "GetThemes"
      [] op \in {"return_locations_data", "download_locations_data"} -> "GetLocations"
      [] op \in {"return_parameters", "download_parameters"} -> "GetParameters"
      [] op = "return_timeseries" -> "GetTimeseries"
      [] op \in {"return_geolocations", "download_geolocations"} -> "GetGeoLocations"
      [] op \in {"return_data", "download_data"} -> "GetData"

\* the descriptor the call c went through request() or download() with
DescriptorOf(c) ==
    IF c.op \in {"create_request", "request", "download"} THEN c.args.cfg
    ELSE IF c.op \in RetrievalOps THEN Cfg(KindOf(c.op), "json")
    ELSE Cfg(KindOf(c.op), extension(c.args.filename))

\* the call c was skipped: an empty selector of download_data or return_data
SkippedCall(c) ==
    \/ /\ c.op = "download_data"
       /\ \/ JoinIds(c.args.themes, "ThemeId") = ""
          \/ JoinIds(c.args.parameters, "ParameterID") = ""
          \/ JoinIds(c.args.locations, "LocationID") = ""
    \/ /\ c.op = "return_data"
       /\ \/ IsEmptyStr(c.args.theme)
          \/ IsEmptyStr(c.args.parameter)
          \/ IsEmptyStr(c.args.location)

\* the network gave bytes that decode to a text that is not empty and does
\* not hold the server's error marker
GoodText(net) ==
    /\ net.kind = "bytes"
    /\ net.body.valid
    /\ ~net.body.text.empty
    /\ ~net.body.text.marker

\* the text is a JSON object with the two fields of an envelope
IsEnvelope(net) ==
    /\ GoodText(net)
    /\ IsDict(net.body.text.json)
    /\ Has(net.body.text.json.dict, "Data")
    /\ Has(net.body.text.json.dict, "ErrorMessage")

\* the response passes every check made of a JSON response
GoodEnvelope(net) ==
    /\ IsEnvelope(net)
    /\ Get(net.body.text.json.dict, "Data") # PyList(<<>>)
    /\ Get(net.body.text.json.dict, "ErrorMessage") = PyStr("")

\* the transport failed (no response obtained), or the interpretation of the
\* response as JSON ends in a query error
FailedJson(net) == ~GoodEnvelope(net)

\* the call c went through request() or download()
ThroughBoundary(c) ==
    /\ c.op \in {"request", "download"} \cup RetrievalOps \cup DownloadOps
    /\ ~SkippedCall(c)

---------------------------------------------------------------------------
(* The claims *)

\* C1: for every descriptor whose kind is outside the 14 request names or
\* whose format is outside the 6 formats, or with either key missing,
\* create_request fails with the validation error (RuntimeError), and an
\* operation that goes through request() or download() with it never calls
\* the transport.
C1_InvalidDescriptorFailsBeforeTransport ==
    /\ (frame.op = "create_request" /\ ~ValidDescriptor(frame.args.cfg))
          => (frame.out.raised /\ frame.out.exc.type = "RuntimeError")
    /\ (ThroughBoundary(frame) /\ ~ValidDescriptor(DescriptorOf(frame)))
          => frame.out.urls = <<>>

\* an unknown format given to download() while the network would have answered
C1_Witness ==
    /\ frame.op = "download"
    /\ Has(frame.args.cfg, "format")
    /\ ~ValidDescriptor(frame.args.cfg)
    /\ GoodEnvelope(frame.args.net)
    /\ frame.out.urls = <<>>

\* C2: a retrieval operation that is not skipped returns None, and raises
\* nothing, whenever the transport fails or the interpretation of the
\* response ends in a query error.
C2_RetrievalReturnsNoneOnError ==
    (frame.op \in RetrievalOps /\ ~SkippedCall(frame) /\ FailedJson(frame.args.net))
        => (~frame.out.raised /\ frame.out.ret = None)

\* C3, as claimed: request() and download() raise the error of an unknown or
\* missing kind or format to their caller; their except clause does not
\* catch it.
C3_ValidationErrorReachesCaller ==
    (ThroughBoundary(frame) /\ ~ValidDescriptor(DescriptorOf(frame)))
        => (frame.out.raised /\ frame.out.caught = None)

\* C3, amended: the validation error of create_request is caught by the
\* catch-all except clause of request() and download(), logged, and the
\* operation returns None with no transport call and no file written; only a
\* descriptor without the key 'format' makes the operation raise, and then a
\* KeyError from its first statement.
C3_ValidationErrorIsCaught ==
    (ThroughBoundary(frame) /\ ~ValidDescriptor(DescriptorOf(frame)))
        => IF ~Has(DescriptorOf(frame), "format")
           THEN /\ frame.out.raised
                /\ frame.out.exc.type = "KeyError"
                /\ frame.out.urls = <<>>
                /\ frame.out.writes = <<>>
           ELSE /\ ~frame.out.raised
                /\ frame.out.ret = None
                /\ frame.out.caught # None
                /\ frame.out.caught.type = "RuntimeError"
                /\ frame.out.log[Len(frame.out.log)]
                     = LogEntry("error", frame.out.caught.msg)
                /\ frame.out.urls = <<>>
                /\ frame.out.writes = <<>>

\* download_themes with a file name whose extension is no format
C3_Witness ==
    /\ frame.op = "download_themes"
    /\ ~ValidDescriptor(DescriptorOf(frame))
    /\ ~frame.out.raised
    /\ frame.out.caught # None

\* C4: request() with a valid format other than json returns the decoded
\* text when the response is not empty and holds no error marker.
C4_NonJsonTextIsReturned ==
    (/\ frame.op = "request"
     /\ ValidDescriptor(frame.args.cfg)
     /\ Get(frame.args.cfg, "format") # PyStr("json")
     /\ GoodText(frame.args.net))
        => (~frame.out.raised /\ frame.out.ret = frame.args.net.body.text)

\* C5: for format json, an envelope with Data and an ErrorMessage that is
\* not empty makes request() and download() end in the server-reported error
\* (RuntimeError), which carries the ErrorMessage.
C5_ServerErrorCarriesMessage ==
    (/\ frame.op \in {"request", "download"}
     /\ ValidDescriptor(frame.args.cfg)
     /\ Get(frame.args.cfg, "format") = PyStr("json")
     /\ IsEnvelope(frame.args.net)
     /\ Get(frame.args.net.body.text.json.dict, "Data") # PyList(<<>>)
     /\ Get(frame.args.net.body.text.json.dict, "ErrorMessage") # PyStr(""))
        => /\ frame.out.caught # None
           /\ frame.out.caught.type = "RuntimeError"
           /\ frame.out.caught.msg
                \in {Get(frame.args.net.body.text.json.dict, "ErrorMessage").str,
                     "Error executing the query.\n"
                       \o Get(frame.args.net.body.text.json.dict, "ErrorMessage").str}

\* C6: for every format, empty bytes, or no bytes at all (execute_request
\* returned None after a transport failure), make request() and download()
\* end in the empty-response error.
C6_NoBytesIsEmptyResponse ==
    (/\ frame.op \in {"request", "download"}
     /\ ValidDescriptor(frame.args.cfg)
     /\ \/ frame.args.net.kind \in {"HTTPError", "URLError"}
        \/ /\ frame.args.net.kind = "bytes"
           /\ frame.args.net.body = [valid |-> TRUE, bom |-> FALSE, text |-> EmptyText])
        => frame.out.caught = Exc("RuntimeError", "No response from the API.")

\* C7: download_data called without startdate and enddate sends January 1 of
\* the year of the call as startdate and the day of the call as enddate.
C7_DownloadDataDefaultsAreCurrent ==
    (/\ frame.op = "download_data"
     /\ frame.args.startdate = Omitted
     /\ frame.args.enddate = Omitted
     /\ frame.out.urls # <<>>)
        => /\ Get(frame.out.urls[1].query, "startdate")
                = strftime(Date(frame.args.today.year, 1, 1))
           /\ Get(frame.out.urls[1].query, "enddate") = strftime(frame.args.today)

\* C8: an operation that passes the validation of its descriptor and is not
\* skipped calls the transport exactly once; no operation calls it more than
\* once, whatever the transport or the interpretation answers.
C8_ExactlyOneTransportCall ==
    /\ frame.op # "none" => Len(frame.out.urls) <= 1
    /\ (ThroughBoundary(frame) /\ ValidDescriptor(DescriptorOf(frame)))
          => Len(frame.out.urls) = 1

\* a retrieval whose transport failed: asked once, not again
C8_Witness ==
    /\ frame.op = "return_themes"
    /\ frame.args.net.kind = "URLError"
    /\ Len(frame.out.urls) = 1

\* C9: download_data with an empty joined list of themes, parameters or
\* locations calls the transport zero times, writes no file and raises
\* nothing.
C9_EmptySelectorsSkip ==
    [][(frame'.op = "download_data" /\ SkippedCall(frame'))
          => /\ frame'.out.urls = <<>>
             /\ frame'.out.writes = <<>>
             /\ fs' = fs
             /\ ~frame'.out.raised]_vars

\* download_data to a .json file with parameters only empty, the network
\* ready to answer with a good envelope
C9_Witness ==
    /\ frame.op = "download_data"
    /\ frame.args.parameters = <<>>
    /\ frame.args.themes # <<>>
    /\ frame.args.locations # <<>>
    /\ extension(frame.args.filename) = "json"
    /\ GoodEnvelope(frame.args.net)
    /\ frame.out.urls = <<>>

\* C10: download() writes the target file if and only if the format is json
\* and the response passed every check; otherwise every file is as it was,
\* also when the 'Overwriting' warning was logged.
C10_WritesOnlyGoodJson ==
    [][frame'.op = "download"
          => IF /\ ValidDescriptor(frame'.args.cfg)
                /\ Get(frame'.args.cfg, "format") = PyStr("json")
                /\ GoodEnvelope(frame'.args.net)
             THEN /\ frame'.out.writes
                       = <<write_pretty_json(frame'.args.net.body.text.json,
                                             frame'.args.filename)>>
                  /\ fs' = [fs EXCEPT ![frame'.args.filename]
                                          = json_dumps(frame'.args.net.body.text.json)]
             ELSE /\ frame'.out.writes = <<>>
                  /\ fs' = fs]_vars

\* a json download onto an existing file whose envelope has no Data: the
\* warning is logged, the file is as it was
C10_Witness ==
    /\ frame.op = "download"
    /\ ValidDescriptor(frame.args.cfg)
    /\ Get(frame.args.cfg, "format") = PyStr("json")
    /\ IsEnvelope(frame.args.net)
    /\ ~GoodEnvelope(frame.args.net)
    /\ \E i \in DOMAIN frame.out.log : frame.out.log[i] = LogEntry("warning", "Overwriting")
    /\ fs[frame.args.filename] = OldContent
    /\ frame.out.writes = <<>>

=============================================================================
